---- MODULE Spec2Model ----
(***************************************************************************)
(* A model of applicationinsights/channel/SenderBase.py: the sender's      *)
(* three fields, their setters, and send(), taken step by step (request    *)
(* construction, the transport call and its classification, the requeue    *)
(* loop one put at a time) so that concurrent sends can interleave.        *)
(***************************************************************************)
EXTENDS Integers, Sequences, FiniteSets, TLC

\* ------------------------------------------------------------------ bounds
MaxBatch == 2    \* longest batch a caller hands to send
MaxQueue == 2    \* most items the queue holds when one caller sends in turn
MaxSize == 2     \* largest value assigned to send_buffer_size (smallest: -1)
MaxResend == 2   \* the per-item count of transmissions saturates here

\* --------------------------------------------------------------- universe
Threads == {"t1", "t2"}
Items == {"a", "b", "c", "d"}
Endpoints == {"http://one", "http://two"}
None == "None"
TheQueue == "queue"
Codes == {199, 200, 299, 300, 400, 404, 500}

DefaultSendBufferSize == 100

VARIABLES
    _service_endpoint_uri,  \* SenderBase._service_endpoint_uri
    _queue,                 \* SenderBase._queue: None or a reference to the queue
    _send_buffer_size,      \* SenderBase._send_buffer_size
    queueItems,             \* the contents of the queue object, oldest first
    pc,                     \* per thread: where it is in send
    data_to_send,           \* per thread: the argument of its send call
    request,                \* per thread: the request built at line 116
    outcome,                \* per thread: what the transport call produced
    idx,                    \* per thread: position of the requeue loop
    posts,                  \* per thread: requests handed to urlopen in this call
    puts,                   \* per thread: items handed to queue.put in this call
    lastAssigned,           \* <<v>>: the last value given to the send_buffer_size setter
    sends                   \* per item: transmissions so far (saturating)

senderVars == <<_service_endpoint_uri, _queue, _send_buffer_size>>
threadVars == <<pc, data_to_send, request, outcome, idx, posts, puts>>
vars == <<_service_endpoint_uri, _queue, _send_buffer_size, queueItems, pc,
          data_to_send, request, outcome, idx, posts, puts, lastAssigned, sends>>

\* ---------------------------------------------------------------- helpers
Range(s) == {s[k] : k \in 1..Len(s)}

SeqsUpTo(S, n) == UNION {[1..k -> S] : k \in 0..n}

IsInjective(s) == \A j, k \in 1..Len(s) : j # k => s[j] # s[k]

Min(x, y) == IF x < y THEN x ELSE y

Max(x, y) == IF x > y THEN x ELSE y

NoRequest == [url |-> "none", body |-> <<>>]
NoOutcome == [kind |-> "none", code |-> 0]

\* ---------------------------------------------------- serialization (l.115)
\* a.write(): the item's JSON-compatible map.
Write(a) == [name |-> a]

ObjTokens(v) == <<"{", "name", ":", v.name, "}">>

RECURSIVE JoinTokens(_)
JoinTokens(vals) ==
    IF vals = <<>> THEN <<>>
    ELSE IF Len(vals) = 1 THEN ObjTokens(vals[1])
    ELSE ObjTokens(vals[1]) \o <<",">> \o JoinTokens(Tail(vals))

\* json.dumps of a list of maps, as the sequence of its tokens.
JsonDumps(vals) == <<"[">> \o JoinTokens(vals) \o <<"]">>

RECURSIVE ParseElems(_)
ParseElems(toks) ==
    IF Len(toks) < 5 THEN <<>>
    ELSE <<[name |-> toks[4]]>> \o
         ParseElems(IF Len(toks) > 5 THEN SubSeq(toks, 7, Len(toks)) ELSE <<>>)

\* The decoder of a request body: the list of maps a token sequence denotes.
JsonLoads(toks) ==
    IF Len(toks) < 2 THEN <<>> ELSE ParseElems(SubSeq(toks, 2, Len(toks) - 1))

Serialized(data) == [k \in 1..Len(data) |-> Write(data[k])]

RequestPayloadTruncated(data) ==
    JsonDumps(Serialized(SubSeq(data, 1, Min(Len(data), _send_buffer_size))))

\* request_payload = json.dumps([ a.write() for a in data_to_send ])
RequestPayload(data) == JsonDumps(Serialized(data))

\* ------------------------------------------------- transport outcomes (l.119-131)
\* What lines 119-125 can produce: a response with a status code whose body was
\* read ("response"), a raised HTTPError carrying a status code ("httperror"), or
\* any other exception ("exception"): raised by urlopen (code 0: no status was
\* seen) or by response.read() after getcode() returned the code.
Outcomes ==
    [kind : {"response"}, code : Codes] \cup
    [kind : {"httperror"}, code : Codes] \cup
    [kind : {"exception"}, code : Codes \cup {0}]

ClassifyInclusive300(o) ==
    CASE o.kind = "response" ->
            IF 200 <= o.code /\ o.code <= 300 THEN "return" ELSE "requeue"
      [] o.kind = "httperror" -> IF o.code = 400 THEN "return" ELSE "requeue"
      [] OTHER -> "requeue"

ClassifyExclusive200(o) ==
    CASE o.kind = "response" ->
            IF 200 < o.code /\ o.code < 300 THEN "return" ELSE "requeue"
      [] o.kind = "httperror" -> IF o.code = 400 THEN "return" ELSE "requeue"
      [] OTHER -> "requeue"

ClassifyNo400(o) ==
    CASE o.kind = "response" ->
            IF 200 <= o.code /\ o.code < 300 THEN "return" ELSE "requeue"
      [] OTHER -> "requeue"

ClassifyClientErrors(o) ==
    CASE o.kind = "response" ->
            IF 200 <= o.code /\ o.code < 300 THEN "return" ELSE "requeue"
      [] o.kind = "httperror" ->
            IF 400 <= o.code /\ o.code < 500 THEN "return" ELSE "requeue"
      [] OTHER -> "requeue"

\* The try block and its two handlers: "return" leaves send at line 123 or 129,
\* "requeue" falls through to line 133.
Classify(o) ==
    CASE o.kind = "response" ->
            IF 200 <= o.code /\ o.code < 300 THEN "return" ELSE "requeue"
      [] o.kind = "httperror" -> IF o.code = 400 THEN "return" ELSE "requeue"
      [] OTHER -> "requeue"

\* ------------------------------------------------------------------ state
Sending(t) == pc[t] \in {"urlopen", "requeue"}

\* Items a running send still holds and has not put back.
InFlight(t) ==
    CASE pc[t] = "urlopen" -> Len(data_to_send[t])
      [] pc[t] = "requeue" -> Len(data_to_send[t]) - (idx[t] - 1)
      [] OTHER -> 0

InFlightItems(t) ==
    CASE pc[t] = "urlopen" -> Range(data_to_send[t])
      [] pc[t] = "requeue" ->
            {data_to_send[t][k] : k \in idx[t]..Len(data_to_send[t])}
      [] OTHER -> {}

\* SenderBase.__init__ for one endpoint: no queue, buffer size 100.
Constructed(uri) ==
    /\ _service_endpoint_uri = uri
    /\ _queue = None
    /\ _send_buffer_size = DefaultSendBufferSize

ThreadsIdle ==
    /\ pc = [t \in Threads |-> "idle"]
    /\ data_to_send = [t \in Threads |-> <<>>]
    /\ request = [t \in Threads |-> NoRequest]
    /\ outcome = [t \in Threads |-> NoOutcome]
    /\ idx = [t \in Threads |-> 1]
    /\ posts = [t \in Threads |-> <<>>]
    /\ puts = [t \in Threads |-> <<>>]

\* ---------------------------------------------------------------- setters
SetServiceEndpointUri(value) ==
    /\ \A t \in Threads : ~Sending(t)
    /\ _service_endpoint_uri' = value
    /\ UNCHANGED <<_queue, _send_buffer_size, queueItems, threadVars,
                   lastAssigned, sends>>

SetQueue(value) ==
    /\ \A t \in Threads : ~Sending(t)
    /\ _queue' = value
    /\ UNCHANGED <<_service_endpoint_uri, _send_buffer_size, queueItems,
                   threadVars, lastAssigned, sends>>

ClampedBelowZero(value) == IF value < 0 THEN 1 ELSE value

\* if value < 1: value = 1
Clamped(value) == IF value < 1 THEN 1 ELSE value

SetSendBufferSize(value) ==
    /\ \A t \in Threads : ~Sending(t)
    /\ _send_buffer_size' = Clamped(value)
    /\ lastAssigned' = <<value>>
    /\ UNCHANGED <<_service_endpoint_uri, _queue, queueItems, threadVars, sends>>

\* ------------------------------------------------------------------- send
\* Lines 115-116: the payload is serialized and the request built for the
\* endpoint the sender holds now.
Call(t, data) ==
    /\ ~Sending(t)
    /\ data_to_send' = [data_to_send EXCEPT ![t] = data]
    /\ request' = [request EXCEPT ![t] =
                      [url |-> _service_endpoint_uri, body |-> RequestPayload(data)]]
    /\ outcome' = [outcome EXCEPT ![t] = NoOutcome]
    /\ idx' = [idx EXCEPT ![t] = 1]
    /\ posts' = [posts EXCEPT ![t] = <<>>]
    /\ puts' = [puts EXCEPT ![t] = <<>>]
    /\ pc' = [pc EXCEPT ![t] = "urlopen"]
    /\ UNCHANGED <<senderVars, lastAssigned>>

UrlopenWithRetry(t, o) ==
    /\ pc[t] = "urlopen"
    /\ posts' = [posts EXCEPT ![t] =
                    IF Classify(o) = "return" THEN Append(@, request[t])
                    ELSE Append(Append(@, request[t]), request[t])]
    /\ outcome' = [outcome EXCEPT ![t] = o]
    /\ pc' = [pc EXCEPT ![t] =
                 IF Classify(o) = "return" THEN "returned" ELSE "requeue"]
    /\ UNCHANGED <<senderVars, queueItems, data_to_send, request, idx, puts,
                   lastAssigned>>

\* Lines 117-131: the request is posted once, the outcome classified, and send
\* either returns or goes on to the requeue loop.
Urlopen(t, o) ==
    /\ pc[t] = "urlopen"
    /\ posts' = [posts EXCEPT ![t] = Append(@, request[t])]
    /\ outcome' = [outcome EXCEPT ![t] = o]
    /\ pc' = [pc EXCEPT ![t] =
                 IF Classify(o) = "return" THEN "returned" ELSE "requeue"]
    /\ UNCHANGED <<senderVars, queueItems, data_to_send, request, idx, puts,
                   lastAssigned>>

PutSkippingFirst(t) ==
    /\ pc[t] = "requeue"
    /\ idx[t] <= Len(data_to_send[t])
    /\ IF _queue = None
       THEN /\ pc' = [pc EXCEPT ![t] = "raised"]
            /\ UNCHANGED <<queueItems, puts, idx>>
       ELSE /\ queueItems' = IF idx[t] = 1 THEN queueItems
                             ELSE Append(queueItems, data_to_send[t][idx[t]])
            /\ puts' = [puts EXCEPT ![t] =
                           IF idx[t] = 1 THEN @
                           ELSE Append(@, data_to_send[t][idx[t]])]
            /\ idx' = [idx EXCEPT ![t] = @ + 1]
            /\ UNCHANGED pc
    /\ UNCHANGED <<senderVars, data_to_send, request, outcome, posts,
                   lastAssigned, sends>>

PutReversed(t) ==
    /\ pc[t] = "requeue"
    /\ idx[t] <= Len(data_to_send[t])
    /\ IF _queue = None
       THEN /\ pc' = [pc EXCEPT ![t] = "raised"]
            /\ UNCHANGED <<queueItems, puts, idx>>
       ELSE LET item == data_to_send[t][Len(data_to_send[t]) + 1 - idx[t]] IN
            /\ queueItems' = Append(queueItems, item)
            /\ puts' = [puts EXCEPT ![t] = Append(@, item)]
            /\ idx' = [idx EXCEPT ![t] = @ + 1]
            /\ UNCHANGED pc
    /\ UNCHANGED <<senderVars, data_to_send, request, outcome, posts,
                   lastAssigned, sends>>

\* Line 136, one iteration: self._queue is read (an unset queue has no put:
\* AttributeError leaves send) and the next item is put.
Put(t) ==
    /\ pc[t] = "requeue"
    /\ idx[t] <= Len(data_to_send[t])
    /\ IF _queue = None
       THEN /\ pc' = [pc EXCEPT ![t] = "raised"]
            /\ UNCHANGED <<queueItems, puts, idx>>
       ELSE /\ queueItems' = Append(queueItems, data_to_send[t][idx[t]])
            /\ puts' = [puts EXCEPT ![t] = Append(@, data_to_send[t][idx[t]])]
            /\ idx' = [idx EXCEPT ![t] = @ + 1]
            /\ UNCHANGED pc
    /\ UNCHANGED <<senderVars, data_to_send, request, outcome, posts,
                   lastAssigned, sends>>

\* Line 135, the loop is exhausted: send returns.
ForExit(t) ==
    /\ pc[t] = "requeue"
    /\ idx[t] > Len(data_to_send[t])
    /\ pc' = [pc EXCEPT ![t] = "returned"]
    /\ UNCHANGED <<senderVars, queueItems, data_to_send, request, outcome, idx,
                   posts, puts, lastAssigned, sends>>

\* ------------------------------------------- one caller, setters between sends
Caller == "t1"
CallerItems == {"a", "b"}
SizeValues == (-1)..MaxSize

Init ==
    /\ \E uri \in Endpoints : Constructed(uri)
    /\ queueItems = <<>>
    /\ ThreadsIdle
    /\ lastAssigned = <<>>
    /\ sends = [a \in Items |-> 0]

Send ==
    \E data \in SeqsUpTo(CallerItems, MaxBatch) :
        /\ Len(queueItems) + Len(data) <= MaxQueue
        /\ Call(Caller, data)
        /\ UNCHANGED <<queueItems, sends>>

Transport == \E o \in Outcomes : Urlopen(Caller, o) /\ UNCHANGED sends

Requeue == Put(Caller)

Return == ForExit(Caller)

AssignEndpoint == \E value \in Endpoints : SetServiceEndpointUri(value)

AssignQueue == \E value \in {None, TheQueue} : SetQueue(value)

AssignBufferSize == \E value \in SizeValues : SetSendBufferSize(value)

Next ==
    \/ Send
    \/ Transport
    \/ Requeue
    \/ Return
    \/ AssignEndpoint
    \/ AssignQueue
    \/ AssignBufferSize

Spec == Init /\ [][Next]_vars

\* --------------------------------- a draining loop whose every send fails
\* The loop of the concrete senders: up to send_buffer_size items are taken from
\* the head of the queue and handed to send.
DrainItems == {"a", "b", "c"}

\* A delivery failure other than a raised HTTP 400.
FailureOutcomes ==
    {o \in Outcomes :
        \/ o.kind = "response" /\ ~(200 <= o.code /\ o.code < 300)
        \/ o.kind = "httperror" /\ o.code # 400
        \/ o.kind = "exception"}

DrainInit ==
    /\ \E uri \in Endpoints : _service_endpoint_uri = uri
    /\ _queue = TheQueue
    /\ \/ _send_buffer_size = DefaultSendBufferSize /\ lastAssigned = <<>>
       \/ \E value \in 1..MaxSize :
              _send_buffer_size = Clamped(value) /\ lastAssigned = <<value>>
    /\ queueItems \in {q \in SeqsUpTo(DrainItems, Cardinality(DrainItems)) :
                          IsInjective(q)}
    /\ ThreadsIdle
    /\ sends = [a \in Items |-> 0]

Drain ==
    /\ _queue = TheQueue
    /\ queueItems # <<>>
    /\ LET n == Min(_send_buffer_size, Len(queueItems)) IN
          /\ Call(Caller, SubSeq(queueItems, 1, n))
          /\ queueItems' = SubSeq(queueItems, n + 1, Len(queueItems))
    /\ UNCHANGED sends

FailingTransport ==
    \E o \in FailureOutcomes :
        /\ Urlopen(Caller, o)
        /\ sends' = [a \in Items |->
                        IF a \in Range(data_to_send[Caller])
                        THEN Min(sends[a] + 1, MaxResend) ELSE sends[a]]

DrainNext ==
    \/ Drain
    \/ FailingTransport
    \/ Requeue
    \/ Return

DrainSpec == DrainInit /\ [][DrainNext]_vars /\ WF_vars(DrainNext)

\* ------------------------------------------------ two concurrent sends
ItemsOf(t) == IF t = "t1" THEN {"a", "b"} ELSE {"c", "d"}

ConcInit ==
    /\ \E uri \in Endpoints : _service_endpoint_uri = uri
    /\ _queue = TheQueue
    /\ _send_buffer_size = DefaultSendBufferSize
    /\ lastAssigned = <<>>
    /\ queueItems = <<>>
    /\ ThreadsIdle
    /\ sends = [a \in Items |-> 0]

ConcSend(t) ==
    /\ pc[t] = "idle"
    /\ \E data \in {d \in SeqsUpTo(ItemsOf(t), MaxBatch) : IsInjective(d)} :
          Call(t, data)
    /\ UNCHANGED <<queueItems, sends>>

ConcTransport(t) == \E o \in Outcomes : Urlopen(t, o) /\ UNCHANGED sends

ConcNext ==
    \E t \in Threads :
        \/ ConcSend(t)
        \/ ConcTransport(t)
        \/ Put(t)
        \/ ForExit(t)

ConcSpec == ConcInit /\ [][ConcNext]_vars

\* ------------------------------------------------------------- properties
Success(code) == 200 <= code /\ code < 300

PutsArePrefix(t) == puts[t] = SubSeq(data_to_send[t], 1, Len(puts[t]))

\* C1: when the transport returns a response whose status is outside [200, 300)
\* (500, or 400 as an ordinary response), the items handed to queue.put are at
\* every moment a prefix of the batch, and when send returns they are the whole
\* batch: N puts, one per item, in the batch's order.
C1_ErrorStatusRequeuesBatch ==
    \A t \in Threads :
        (outcome[t].kind = "response" /\ ~Success(outcome[t].code)) =>
            /\ PutsArePrefix(t)
            /\ pc[t] = "returned" => puts[t] = data_to_send[t]

C1_Witness ==
    /\ pc[Caller] = "returned"
    /\ outcome[Caller] = [kind |-> "response", code |-> 400]
    /\ Len(data_to_send[Caller]) = MaxBatch
    /\ puts[Caller] = data_to_send[Caller]

\* C2: when the transport returns a response whose status is in [200, 300), send
\* has returned normally and queue.put was not called: nothing is requeued.
C2_SuccessNeverRequeues ==
    \A t \in Threads :
        (outcome[t].kind = "response" /\ Success(outcome[t].code)) =>
            /\ pc[t] = "returned"
            /\ puts[t] = <<>>

C2_Witness ==
    /\ pc[Caller] = "returned"
    /\ outcome[Caller] = [kind |-> "response", code |-> 299]
    /\ Len(data_to_send[Caller]) = MaxBatch
    /\ _queue = TheQueue
    /\ puts[Caller] = <<>>

\* C3: when the transport call raises an HTTP error with status 400, send has
\* returned and queue.put was not called, whatever the batch length.
C3_RaisedBadRequestDropsBatch ==
    \A t \in Threads :
        outcome[t] = [kind |-> "httperror", code |-> 400] =>
            /\ pc[t] = "returned"
            /\ puts[t] = <<>>

C3_Witness ==
    /\ pc[Caller] = "returned"
    /\ outcome[Caller] = [kind |-> "httperror", code |-> 400]
    /\ Len(data_to_send[Caller]) = MaxBatch
    /\ _queue = TheQueue
    /\ puts[Caller] = <<>>

\* C4: when the transport call raises an HTTP error with a status other than 400,
\* or any other exception, the items handed to queue.put are at every moment a
\* prefix of the batch, and when send returns they are the whole batch.
C4_RaisedFailureRequeuesBatch ==
    \A t \in Threads :
        (\/ outcome[t].kind = "httperror" /\ outcome[t].code # 400
         \/ outcome[t].kind = "exception") =>
            /\ PutsArePrefix(t)
            /\ pc[t] = "returned" => puts[t] = data_to_send[t]

C4_Witness ==
    /\ pc[Caller] = "returned"
    /\ outcome[Caller] = [kind |-> "httperror", code |-> 404]
    /\ Len(data_to_send[Caller]) = MaxBatch
    /\ puts[Caller] = data_to_send[Caller]

\* C5: send never raises to its caller, in any sender state reachable by
\* construction and setter calls, the state with no queue assigned included.
C5_SendNeverRaises == \A t \in Threads : pc[t] # "raised"

\* C6: the buffer-size limit is 100 after construction, max(v, 1) after the last
\* assignment of v, and at least 1 in every state.
C6_BufferSizeClamped ==
    /\ _send_buffer_size >= 1
    /\ lastAssigned = <<>> => _send_buffer_size = 100
    /\ lastAssigned # <<>> => _send_buffer_size = Max(lastAssigned[1], 1)

C6_Witness ==
    /\ lastAssigned = <<0>>
    /\ _send_buffer_size = 1
    /\ pc[Caller] = "returned"

\* C7: the body of the posted request, decoded, is the sequence of the items'
\* serializations, one per item of the batch and in its order, also for the empty
\* batch and for a batch longer than the buffer-size limit.
C7_BodyRoundTrip ==
    \A t \in Threads :
        posts[t] # <<>> =>
            JsonLoads(posts[t][1].body) =
                [k \in 1..Len(data_to_send[t]) |-> [name |-> data_to_send[t][k]]]

C7_Witness ==
    /\ pc[Caller] = "requeue"
    /\ _send_buffer_size = 1
    /\ Len(data_to_send[Caller]) = MaxBatch
    /\ data_to_send[Caller][1] # data_to_send[Caller][MaxBatch]
    /\ Len(JsonLoads(posts[Caller][1].body)) = MaxBatch

\* C8: every step of a running send leaves the endpoint, the buffer-size limit
\* and the queue reference alone; the step that leaves the transport call has
\* posted exactly one request, to the endpoint the sender holds; no later step of
\* that send posts again; and the queue changes only by one put at its tail.
C8_OnePostAndFrame ==
    [][\A t \in Threads :
          Sending(t) =>
              /\ _service_endpoint_uri' = _service_endpoint_uri
              /\ _send_buffer_size' = _send_buffer_size
              /\ _queue' = _queue
              /\ pc[t] = "urlopen" /\ pc'[t] # "urlopen" =>
                    /\ posts[t] = <<>>
                    /\ Len(posts'[t]) = 1
                    /\ posts'[t][1].url = _service_endpoint_uri
              /\ pc[t] = "requeue" => Len(posts[t]) = 1 /\ posts'[t] = posts[t]
              /\ \/ queueItems' = queueItems
                 \/ \E a \in Items : queueItems' = Append(queueItems, a)]_vars

C8_Witness ==
    /\ pc[Caller] = "returned"
    /\ Len(posts[Caller]) = 1
    /\ posts[Caller][1].url = "http://two"
    /\ Len(puts[Caller]) = MaxBatch

SystemItems == Range(queueItems) \cup InFlightItems(Caller)

SystemCount == Len(queueItems) + InFlight(Caller)

\* C9: under a draining loop whose every transport call ends in a delivery
\* failure other than a raised HTTP 400: when a send has returned its whole
\* batch is on the queue; no step drops or delivers an item (the items in the
\* system stay the same and their number never decreases); and an item on the
\* queue is always transmitted again.
C9_FailedBatchesAreResentForever ==
    /\ [](pc[Caller] = "returned" =>
            /\ Range(data_to_send[Caller]) \subseteq Range(queueItems)
            /\ puts[Caller] = data_to_send[Caller])
    /\ [][SystemItems' = SystemItems /\ SystemCount' >= SystemCount]_vars
    /\ \A a \in DrainItems :
          [](a \in Range(queueItems) =>
                <>(pc[Caller] = "urlopen" /\ a \in Range(data_to_send[Caller])))

C9_Witness ==
    /\ pc[Caller] = "returned"
    /\ Len(queueItems) = Cardinality(DrainItems)
    /\ \A a \in DrainItems : sends[a] = MaxResend

ItemsOn(q, S) == LET Member(a) == a \in S IN SelectSeq(q, Member)

Failed(o) == o \in FailureOutcomes

\* C10: when two sends run concurrently against one queue and end in delivery
\* failure, then under every interleaving the queue holds of each batch exactly
\* what that send has put so far, in the batch's order, and the whole batch once
\* the send has returned. (That the two batches may interleave on the queue is the
\* witness.)
C10_ConcurrentRequeueKeepsEachBatch ==
    \A t \in Threads :
        Failed(outcome[t]) =>
            /\ ItemsOn(queueItems, ItemsOf(t)) = puts[t]
            /\ PutsArePrefix(t)
            /\ pc[t] = "returned" =>
                  ItemsOn(queueItems, ItemsOf(t)) = data_to_send[t]

C10_Witness ==
    /\ \A t \in Threads : pc[t] = "returned" /\ Failed(outcome[t])
    /\ Len(queueItems) = 4
    /\ queueItems[1] \in ItemsOf("t1")
    /\ queueItems[2] \in ItemsOf("t2")
    /\ queueItems[3] \in ItemsOf("t1")
    /\ queueItems[4] \in ItemsOf("t2")

====
